---- MODULE Spec2Model ----
(***************************************************************************)
(* Model of the streaming translation and lifecycle core of the proxy      *)
(* (src/proxy/server.ts, handleMessages).                                  *)
(*                                                                         *)
(* Every request owns a closure of locals (timers, flags, the output       *)
(* controller); req[r] is that closure.  JavaScript runs each callback to  *)
(* completion, so one action is one callback: the synchronous part of      *)
(* handleMessages, one iteration of the for-await loop, a timer callback,  *)
(* the heartbeat tick, ReadableStream.cancel.                              *)
(***************************************************************************)
EXTENDS Integers, Sequences, FiniteSets, TLC

VARIABLES req, consumed

vars == <<req, consumed>>

(***************************************************************************)
(* Bounds of the model.                                                    *)
(***************************************************************************)
\* engine events consumed over a whole run, all requests together
MaxEvents == 2

\* keep-alive frames written to one output
MaxPings == 1

\* phrases a failure message is put together from
MaxParts == 2

\* fragments a model name is put together from
MaxModelParts == 2

\* messages in the body of a request
MaxMessages == 2

\* requests that can be in flight together
Reqs == {"r1", "r2"}

(***************************************************************************)
(* Values.                                                                 *)
(***************************************************************************)
\* JavaScript undefined (an absent header, an absent field)
Undefined == "<undefined>"

\* `${x}` of Date.now(): the placeholder session_<millis>
SessionPlaceholder == "session_<millis>"

\* JavaScript truthiness of an optional string
Truthy(x) == x # Undefined /\ x # ""

\* a || b
Or(a, b) == IF Truthy(a) THEN a ELSE b

\* values of the inbound X-Claude-Session-ID header
InboundIds == {Undefined, "", "abc123"}

\* session identifiers the engine reports on an event
EngineIds == {Undefined, "s1", "s2"}

(***************************************************************************)
(* Failure values and the error classifier.  A message is the sequence of  *)
(* its words; includes() is containment of a contiguous run of words.      *)
(***************************************************************************)
Includes(msg, pat) ==
    \E i \in 1..(Len(msg) - Len(pat) + 1) : SubSeq(msg, i, i + Len(pat) - 1) = pat

\* a thrown value: an Error with name and message, or a bare string
Err(isError, name, message) == [isError |-> isError, name |-> name, message |-> message]

\* what controller.enqueue / controller.close throw on a closed controller
TypeErrorClosed == Err(TRUE, "TypeError", <<"Invalid", "state:", "Controller", "is", "already", "closed">>)

\* failures of the engine call, one of each class of the classifier
EngineErrors ==
    { Err(TRUE, "Error", <<"Claude", "Code", "process", "exited", "with", "code", "1">>),
      Err(TRUE, "Error", <<"Claude", "Code", "process", "aborted", "by", "user">>),
      Err(TRUE, "Error", <<"read", "ECONNRESET">>),
      Err(TRUE, "Error", <<"Stream", "timeout", "exceeded">>) }

\* the phrases the classifier looks for, and phrases it does not look for
ErrorParts ==
    { <<"exited", "with", "code", "1">>,
      <<"exit", "code", "1">>,
      <<"exit", "code", "2">>,
      <<"Claude", "Code", "process", "aborted">>,
      <<"process", "aborted", "by", "user">>,
      <<"reset">>,
      <<"ECONNRESET">>,
      <<"boom">> }

RECURSIVE ErrorTexts(_)
\* the messages of at most n phrases
ErrorTexts(n) ==
    IF n = 0 THEN {<<>>}
    ELSE ErrorTexts(n - 1) \cup {p \o t : p \in ErrorParts, t \in ErrorTexts(n - 1)}

\* every value the engine call can reject with: an Error, an AbortError, or
\* a thrown value that is not an Error
FailureValues ==
    {Err(TRUE, name, t) : name \in {"Error", "AbortError"}, t \in ErrorTexts(MaxParts)}
        \cup {Err(FALSE, "", t) : t \in ErrorTexts(MaxParts)}

\* error instanceof Error ? error.message : String(error)
ErrorMessageOf(error) == error.message

isSdkAbort(error) ==
    \/ Includes(ErrorMessageOf(error), <<"Claude", "Code", "process", "aborted">>)
    \/ Includes(ErrorMessageOf(error), <<"process", "aborted", "by", "user">>)

isConnectionReset(error) ==
    /\ ~isSdkAbort(error)
    /\ error.isError
    /\ \/ Includes(error.message, <<"reset">>)
       \/ Includes(error.message, <<"ECONNRESET">>)
       \/ error.name = "AbortError"

isExitCode1(error) ==
    \/ Includes(ErrorMessageOf(error), <<"exited", "with", "code", "1">>)
    \/ Includes(ErrorMessageOf(error), <<"exit", "code", "1">>)

AuthMessage == <<"Claude", "Code", "authentication", "failed.">>
SdkAbortMessage == <<"Claude", "SDK", "process", "exited", "unexpectedly.">>

\* variant: the connection-reset rule is tried first
StreamErrorType_ResetFirst(error) ==
    IF isConnectionReset(error) THEN "connection_error"
    ELSE IF isExitCode1(error) THEN "authentication_error"
    ELSE "api_error"

\* errorType of the streaming error frame
StreamErrorType(error) ==
    IF isExitCode1(error) THEN "authentication_error"
    ELSE IF isSdkAbort(error) THEN "api_error"
    ELSE IF isConnectionReset(error) THEN "connection_error"
    ELSE "api_error"

\* userMessage of the streaming error frame
StreamUserMessage(error) ==
    IF isExitCode1(error) THEN AuthMessage
    ELSE IF isSdkAbort(error) THEN SdkAbortMessage
    ELSE ErrorMessageOf(error)

(***************************************************************************)
(* SSE frames.                                                             *)
(***************************************************************************)
Frame(type, index, text, etype, msg) ==
    [type |-> type, index |-> index, text |-> text, etype |-> etype, msg |-> msg]

NoIndex == -1

MessageStart == Frame("message_start", NoIndex, "", "", <<>>)
ContentBlockStart(i) == Frame("content_block_start", i, "", "", <<>>)
ContentBlockDelta(i, text) == Frame("content_block_delta", i, text, "", <<>>)
ContentBlockStop(i) == Frame("content_block_stop", i, "", "", <<>>)
MessageDelta == Frame("message_delta", NoIndex, "", "", <<>>)
MessageStop == Frame("message_stop", NoIndex, "", "", <<>>)
ErrorFrame(etype, msg) == Frame("error", NoIndex, "", etype, msg)
Ping == Frame("ping", NoIndex, "", "", <<>>)

ClosingTriad == <<ContentBlockStop(0), MessageDelta, MessageStop>>

(***************************************************************************)
(* Agent Events of the engine.                                             *)
(***************************************************************************)
TextBlock(t) == [type |-> "text", text |-> t]
ToolBlock == [type |-> "tool_use", text |-> ""]

Msg(type, sid, content, etype, btype, index, text) ==
    [type |-> type, session_id |-> sid, content |-> content,
     etype |-> etype, btype |-> btype, index |-> index, text |-> text]

\* a turn with two text blocks around a tool call
MixedContent == <<TextBlock("a"), ToolBlock, TextBlock("b")>>

\* a turn that only calls a tool
ToolContent == <<ToolBlock>>

AssistantMsgs ==
    { Msg("assistant", sid, MixedContent, "", "", NoIndex, "") : sid \in EngineIds }
    \cup { Msg("assistant", Undefined, ToolContent, "", "", NoIndex, "") }

UserMsg == Msg("user", Undefined, <<>>, "", "", NoIndex, "")
ResultMsg == Msg("result", Undefined, <<>>, "", "", NoIndex, "")

StreamStart(bt, i) == Msg("stream_event", Undefined, <<>>, "content_block_start", bt, i, "")
StreamDelta(dt, i) == Msg("stream_event", Undefined, <<>>, "content_block_delta", dt, i, "x")
StreamStop(i) == Msg("stream_event", Undefined, <<>>, "content_block_stop", "", i, "")

StreamMsgs ==
    { StreamStart("text", 0), StreamStart("text", 1), StreamStart(Undefined, 1), StreamStart("tool_use", 1),
      StreamDelta("text_delta", 1), StreamDelta("input_json_delta", 1),
      StreamStop(0), StreamStop(1) }

Messages == AssistantMsgs \cup {UserMsg, ResultMsg} \cup StreamMsgs

(***************************************************************************)
(* The closure of one request.                                             *)
(***************************************************************************)
NoError == Err(FALSE, "<none>", <<>>)

Response(status, contentType, sessionHeader, errType, errMsg, text) ==
    [status |-> status, contentType |-> contentType, sessionHeader |-> sessionHeader,
     errType |-> errType, errMsg |-> errMsg, text |-> text]

NoResponse == Response(0, "", Undefined, "", <<>>, <<>>)

(***************************************************************************)
(* The request body: the model mapper and the prompt compiler.  A model    *)
(* name is the sequence of its characters.  A text is a sequence of        *)
(* chunks, one of which is the blank line "\n\n".  A JSON object is a       *)
(* record that has a field only if the object has it.                      *)
(***************************************************************************)
Opus == <<"o", "p", "u", "s">>
Haiku == <<"h", "a", "i", "k", "u">>
Sonnet == <<"s", "o", "n", "n", "e", "t">>

\* variant: haiku is tested before opus
mapModelToClaudeModel_HaikuFirst(model) ==
    IF Includes(model, Haiku) THEN "haiku"
    ELSE IF Includes(model, Opus) THEN "opus"
    ELSE "sonnet"

mapModelToClaudeModel(model) ==
    IF Includes(model, Opus) THEN "opus"
    ELSE IF Includes(model, Haiku) THEN "haiku"
    ELSE "sonnet"

\* body.model || "sonnet"
BodyModel(body) ==
    IF "model" \in DOMAIN body /\ body.model # <<>> THEN body.model ELSE Sonnet

\* fragments of model names: the names looked for, pieces of them, other text
ModelParts ==
    { Opus, Haiku, Sonnet, <<"o", "p">>, <<"u", "s">>, <<"O", "p", "u", "s">>,
      <<"c", "l", "a", "u", "d", "e", "-">> }

RECURSIVE ModelNames(_)
\* the model names of at most n fragments
ModelNames(n) ==
    IF n = 0 THEN {<<>>}
    ELSE ModelNames(n - 1) \cup {p \o t : p \in ModelParts, t \in ModelNames(n - 1)}

\* the blank line that joins the segments of the prompt
BlankLine == "\n\n"

\* m.content: a string, an array of blocks, or a value of another shape,
\* given by what String(m.content) makes of it
StringContent(t) == [kind |-> "string", text |-> t, blocks |-> <<>>]
ArrayContent(bs) == [kind |-> "array", text |-> <<>>, blocks |-> bs]
OtherContent(t) == [kind |-> "other", text |-> t, blocks |-> <<>>]

Contents ==
    { StringContent(<<"hi">>),
      StringContent(<<"a", BlankLine, "b">>),
      StringContent(<<>>),
      ArrayContent(MixedContent),
      ArrayContent(<<TextBlock(""), ToolBlock>>),
      OtherContent(<<"undefined">>) }

Message(role, content) == [role |-> role, content |-> content]

InboundMessages == {Message(role, c) : role \in {"user", "assistant", "system"}, c \in Contents}

RECURSIVE MessageLists(_)
\* the message lists of at most n messages
MessageLists(n) ==
    IF n = 0 THEN {<<>>}
    ELSE MessageLists(n - 1) \cup {<<m>> \o l : m \in InboundMessages, l \in MessageLists(n - 1)}

\* variant: only the role user is labelled Human
RoleLabel_UserOnly(role) == IF role = "user" THEN "Human: " ELSE "Assistant: "

\* m.role === "assistant" ? "Assistant" : "Human", with the ": " of the template
RoleLabel(role) == IF role = "assistant" THEN "Assistant: " ELSE "Human: "

RECURSIVE BlockTexts(_)
\* .filter(block => block.type === "text" && block.text).map(block => block.text).join("")
BlockTexts(blocks) ==
    IF blocks = <<>> THEN <<>>
    ELSE IF Head(blocks).type = "text" /\ Head(blocks).text # ""
         THEN <<Head(blocks).text>> \o BlockTexts(Tail(blocks))
         ELSE BlockTexts(Tail(blocks))

\* the content of a message as a string
ContentText(content) ==
    IF content.kind = "array" THEN BlockTexts(content.blocks) ELSE content.text

\* `${role}: ${content}`
Segment(m) == <<RoleLabel(m.role)>> \o ContentText(m.content)

RECURSIVE Join(_)
\* .join("\n\n")
Join(segs) ==
    IF segs = <<>> THEN <<>>
    ELSE IF Len(segs) = 1 THEN Head(segs)
    ELSE Head(segs) \o <<BlankLine>> \o Join(Tail(segs))

\* body.messages?.map(...).join("\n\n") || ""
Prompt(body) ==
    IF "messages" \in DOMAIN body
    THEN Join([i \in 1..Len(body.messages) |-> Segment(body.messages[i])])
    ELSE <<>>

\* the body of the requests of the sequential specification
DefaultBody == [model |-> Sonnet, messages |-> <<Message("user", StringContent(<<"hi">>))>>]

\* the bodies the model mapper and the prompt compiler are run on
Bodies ==
    {[messages |-> DefaultBody.messages]}
        \cup {[model |-> n, messages |-> DefaultBody.messages] : n \in ModelNames(MaxModelParts)}
        \cup {[model |-> DefaultBody.model]}
        \cup {[model |-> DefaultBody.model, messages |-> l] : l \in MessageLists(MaxMessages)}

Idle ==
    [ pc |-> "idle",                   \* idle, streaming, collecting, done
      stream |-> TRUE,                 \* body.stream ?? true
      resumeSessionId |-> Undefined,   \* inbound X-Claude-Session-ID
      frames |-> <<>>,                 \* chunks enqueued on the output controller
      closeRequested |-> FALSE,        \* controller.close() has succeeded
      cancelled |-> FALSE,             \* the consumer cancelled the stream
      startRejected |-> FALSE,         \* start() ended by throwing
      uncaught |-> FALSE,              \* a timer callback ended by throwing
      clientDisconnected |-> FALSE,
      timeoutId |-> FALSE,             \* the total timer is pending
      inactivityTimeoutId |-> FALSE,   \* the inactivity timer is pending
      timeoutArms |-> 0,               \* setTimeout calls for the total timer
      inactivityArms |-> 0,            \* setTimeout calls for the inactivity timer
      inactivityLive |-> 0,            \* inactivity timers scheduled in the runtime
      heartbeat |-> FALSE,             \* the keep-alive interval is scheduled
      aborted |-> FALSE,               \* abortController.signal.aborted
      abortCalls |-> 0,                \* calls of abortController.abort
      currentSessionId |-> Undefined,
      turnCount |-> 0,
      hasResult |-> FALSE,
      hasStreamEvents |-> FALSE,
      fullContent |-> <<>>,            \* non-streaming text buffer
      seen |-> <<>>,                   \* the events the non-streaming loop consumed
      error |-> NoError,               \* the value caught by the catch block
      body |-> DefaultBody,            \* the JSON body of the request
      model |-> "",                    \* the model option of the engine call
      prompt |-> <<>>,                 \* the prompt of the engine call
      response |-> NoResponse ]

(***************************************************************************)
(* The output controller (ReadableStreamDefaultController).                *)
(***************************************************************************)
\* variant: a controller that still accepts chunks after the consumer cancelled
CanCloseOrEnqueue_AfterCancel(s) == ~s.closeRequested /\ ~s.startRejected

\* enqueue and close throw a TypeError unless this holds
CanCloseOrEnqueue(s) == ~s.closeRequested /\ ~s.cancelled /\ ~s.startRejected

\* controller.enqueue of a run of frames, the controller being open
Enqueue(s, fs) == [s EXCEPT !.frames = @ \o fs]

\* controller.close(), the controller being open
Close(s) == [s EXCEPT !.closeRequested = TRUE]

\* the async start() ends by throwing: its promise rejects
RejectStart(s) == [s EXCEPT !.pc = "done", !.startRejected = TRUE]

(***************************************************************************)
(* Timers.                                                                 *)
(***************************************************************************)
\* if (timeoutId) clearTimeout(timeoutId); if (inactivityTimeoutId) clearTimeout(...)
ClearTimeouts(s) ==
    [s EXCEPT !.timeoutId = FALSE, !.inactivityTimeoutId = FALSE,
              !.inactivityLive = IF s.inactivityTimeoutId THEN @ - 1 ELSE @]

\* variant: the previous inactivity timer is left scheduled
resetInactivityTimeout_NoClear(s) ==
    [s EXCEPT !.inactivityTimeoutId = TRUE,
              !.inactivityArms = @ + 1,
              !.inactivityLive = @ + 1]

\* variant: every restart also re-arms the total timer
resetInactivityTimeout_BothTimers(s) ==
    [s EXCEPT !.inactivityTimeoutId = TRUE,
              !.inactivityArms = @ + 1,
              !.inactivityLive = (IF s.inactivityTimeoutId THEN @ - 1 ELSE @) + 1,
              !.timeoutId = TRUE,
              !.timeoutArms = @ + 1]

\* clearTimeout of the previous inactivity timer, then setTimeout of a new one
resetInactivityTimeout(s) ==
    [s EXCEPT !.inactivityTimeoutId = TRUE,
              !.inactivityArms = @ + 1,
              !.inactivityLive = (IF s.inactivityTimeoutId THEN @ - 1 ELSE @) + 1]

\* abortController.abort(reason)
Abort(s) == [s EXCEPT !.aborted = TRUE, !.abortCalls = @ + 1]

\* variant: a timer callback that aborts and leaves the output open
TimerCallback_AbortOnly(s) == Abort(s)

\* body of either timer callback: abort, then controller.close()
TimerCallback(s) ==
    LET a == Abort(s)
    IN  IF CanCloseOrEnqueue(a) THEN Close(a) ELSE [a EXCEPT !.uncaught = TRUE]

(***************************************************************************)
(* start(): the catch block.                                               *)
(***************************************************************************)
\* variant: a catch block that leaves the timers alone
Catch_KeepTimers(s, error) ==
    LET c == [s EXCEPT !.error = error]
    IN  IF c.clientDisconnected
        THEN IF CanCloseOrEnqueue(c)
             THEN [Close(c) EXCEPT !.pc = "done"]
             ELSE RejectStart(c)
        ELSE IF CanCloseOrEnqueue(c)
             THEN [Close(Enqueue(c, <<ErrorFrame(StreamErrorType(error), StreamUserMessage(error))>>))
                     EXCEPT !.pc = "done"]
             ELSE RejectStart(c)

\* the catch block of start()
Catch(s, error) ==
    LET c == [ClearTimeouts(s) EXCEPT !.error = error]
    IN  IF c.clientDisconnected
        THEN IF CanCloseOrEnqueue(c)
             THEN [Close(c) EXCEPT !.pc = "done"]
             ELSE RejectStart(c)
        ELSE IF CanCloseOrEnqueue(c)
             THEN [Close(Enqueue(c, <<ErrorFrame(StreamErrorType(error), StreamUserMessage(error))>>))
                     EXCEPT !.pc = "done"]
             ELSE RejectStart(c)

\* finally { clearInterval(heartbeat) }
Finally(s) == [s EXCEPT !.heartbeat = FALSE]

\* variant: a closing sequence that leaves the output open
Closing_NoClose(s) ==
    LET c == ClearTimeouts(s)
    IN  IF CanCloseOrEnqueue(c)
        THEN [Enqueue(c, ClosingTriad) EXCEPT !.pc = "done"]
        ELSE Catch(c, TypeErrorClosed)

\* variant: a closing sequence without the message_delta frame
Closing_NoMessageDelta(s) ==
    LET c == ClearTimeouts(s)
    IN  IF CanCloseOrEnqueue(c)
        THEN [Close(Enqueue(c, <<ContentBlockStop(0), MessageStop>>)) EXCEPT !.pc = "done"]
        ELSE Catch(c, TypeErrorClosed)

\* after the loop: clear the timers, closing triad, close
Closing(s) ==
    LET c == ClearTimeouts(s)
    IN  IF CanCloseOrEnqueue(c)
        THEN [Close(Enqueue(c, ClosingTriad)) EXCEPT !.pc = "done"]
        ELSE Catch(c, TypeErrorClosed)

(***************************************************************************)
(* start(): one iteration of the for-await loop.                           *)
(***************************************************************************)
\* variant: no filter, every block of the turn is taken
TextBlocksOf_All(content) == content

RECURSIVE TextBlocksOf(_)
\* message.message.content.filter(b => b.type === "text")
TextBlocksOf(content) ==
    IF content = <<>> THEN <<>>
    ELSE IF Head(content).type = "text"
         THEN <<Head(content)>> \o TextBlocksOf(Tail(content))
         ELSE TextBlocksOf(Tail(content))

RECURSIVE FallbackFrames(_, _)
\* the start, delta, stop of textBlocks[i], textBlocks[i+1], ... (i counts from 0)
FallbackFrames(textBlocks, i) ==
    IF i >= Len(textBlocks) THEN <<>>
    ELSE <<ContentBlockStart(i), ContentBlockDelta(i, textBlocks[i + 1].text), ContentBlockStop(i)>>
         \o FallbackFrames(textBlocks, i + 1)

\* variant: every content_block_delta is forwarded, whatever its delta type
StreamEventFrames_AllDeltas(m) ==
    IF m.etype = "content_block_start"
    THEN IF m.btype = "text" \/ ~Truthy(m.btype) THEN <<ContentBlockStart(m.index)>> ELSE <<>>
    ELSE IF m.etype = "content_block_delta"
    THEN <<ContentBlockDelta(m.index, m.text)>>
    ELSE IF m.etype = "content_block_stop"
    THEN <<ContentBlockStop(m.index)>>
    ELSE <<>>

\* variant: every content_block_start is forwarded, whatever its block type
StreamEventFrames_AllStarts(m) ==
    IF m.etype = "content_block_start"
    THEN <<ContentBlockStart(m.index)>>
    ELSE IF m.etype = "content_block_delta"
    THEN IF m.btype = "text_delta" THEN <<ContentBlockDelta(m.index, m.text)>> ELSE <<>>
    ELSE IF m.etype = "content_block_stop"
    THEN <<ContentBlockStop(m.index)>>
    ELSE <<>>

\* the frames the stream_event branch enqueues
StreamEventFrames(m) ==
    IF m.etype = "content_block_start"
    THEN IF m.btype = "text" \/ ~Truthy(m.btype) THEN <<ContentBlockStart(m.index)>> ELSE <<>>
    ELSE IF m.etype = "content_block_delta"
    THEN IF m.btype = "text_delta" THEN <<ContentBlockDelta(m.index, m.text)>> ELSE <<>>
    ELSE IF m.etype = "content_block_stop"
    THEN <<ContentBlockStop(m.index)>>
    ELSE <<>>

\* variant: the fallback applies to every assistant message
UseFallback_Always(s, m) == m.type = "assistant"

\* the fallback applies to an assistant message while no stream_event was seen
UseFallback(s, m) == m.type = "assistant" /\ ~s.hasStreamEvents

\* the frames one message makes the loop body enqueue; s is the closure after
\* the flags were updated
FramesFor(s, m) ==
    IF m.type = "stream_event" THEN StreamEventFrames(m)
    ELSE IF UseFallback(s, m) THEN FallbackFrames(TextBlocksOf(m.content), 0)
    ELSE <<>>

\* variant: the identifier of the latest turn replaces the captured one
CaptureSession_Latest(s, m) ==
    IF Truthy(m.session_id)
    THEN [s EXCEPT !.currentSessionId = m.session_id]
    ELSE s

\* if (message.session_id) { if (!currentSessionId) currentSessionId = message.session_id }
CaptureSession(s, m) ==
    IF Truthy(m.session_id) /\ ~Truthy(s.currentSessionId)
    THEN [s EXCEPT !.currentSessionId = m.session_id]
    ELSE s

\* turnCount, session capture, hasResult, hasStreamEvents
TrackMessage(s, m) ==
    LET a == IF m.type = "assistant"
             THEN CaptureSession([s EXCEPT !.turnCount = @ + 1], m)
             ELSE s
        b == IF m.type = "result" THEN [a EXCEPT !.hasResult = TRUE] ELSE a
    IN  IF m.type = "stream_event" THEN [b EXCEPT !.hasStreamEvents = TRUE] ELSE b

\* variant: a loop that stops after the first assistant turn
LoopBody_MaxTurns(s, m) ==
    IF s.clientDisconnected \/ (m.type = "assistant" /\ s.turnCount >= 1)
    THEN Closing(Finally(s))
    ELSE LET t == TrackMessage(resetInactivityTimeout(s), m)
             fs == FramesFor(t, m)
         IN  IF fs = <<>> THEN t
             ELSE IF CanCloseOrEnqueue(t) THEN Enqueue(t, fs)
             ELSE Catch(Finally(t), TypeErrorClosed)

\* the loop body for message m
LoopBody(s, m) ==
    IF s.clientDisconnected
    THEN Closing(Finally(s))
    ELSE LET t == TrackMessage(resetInactivityTimeout(s), m)
             fs == FramesFor(t, m)
         IN  IF fs = <<>> THEN t
             ELSE IF CanCloseOrEnqueue(t) THEN Enqueue(t, fs)
             ELSE Catch(Finally(t), TypeErrorClosed)

(***************************************************************************)
(* The response headers.                                                   *)
(***************************************************************************)
\* the model and the prompt handleMessages computes from the body
Options(s) ==
    [s EXCEPT !.model = mapModelToClaudeModel(BodyModel(s.body)), !.prompt = Prompt(s.body)]

\* currentSessionId || resumeSessionId || `session_${Date.now()}`
StreamSessionHeader(s) == Or(Or(s.currentSessionId, s.resumeSessionId), SessionPlaceholder)

\* currentSessionId || `session_${Date.now()}`
JsonSessionHeader(s) == Or(s.currentSessionId, SessionPlaceholder)

\* the synchronous part of start(): total timer, preamble, inactivity timer,
\* query(), heartbeat; the loop then waits for the first message
Start(s) ==
    LET a == [s EXCEPT !.timeoutId = TRUE, !.timeoutArms = @ + 1]
        b == Enqueue(a, <<MessageStart, ContentBlockStart(0)>>)
        c == resetInactivityTimeout(b)
    IN  [c EXCEPT !.heartbeat = TRUE, !.pc = "streaming"]

\* new Response(readable, { headers })
StreamResponse(s) ==
    [s EXCEPT !.response = Response(200, "text/event-stream", StreamSessionHeader(s), "", <<>>, <<>>)]

(***************************************************************************)
(* The non-streaming path.                                                 *)
(***************************************************************************)
\* if (message.session_id) currentSessionId = message.session_id
JsonCaptureSession(s, m) ==
    IF Truthy(m.session_id) THEN [s EXCEPT !.currentSessionId = m.session_id] ELSE s

RECURSIVE TextsOf(_)
\* the texts of the text blocks, in order
TextsOf(content) ==
    IF content = <<>> THEN <<>>
    ELSE IF Head(content).type = "text"
         THEN <<Head(content).text>> \o TextsOf(Tail(content))
         ELSE TextsOf(Tail(content))

\* variant: the buffer is assigned instead of appended to
JsonLoopBody_LastTurn(s, m) ==
    IF m.type = "assistant"
    THEN [JsonCaptureSession(s, m) EXCEPT !.fullContent = TextsOf(m.content)]
    ELSE s

\* the loop body of the non-streaming path
JsonLoopBody(s, m) ==
    IF m.type = "assistant"
    THEN [JsonCaptureSession(s, m) EXCEPT !.fullContent = @ \o TextsOf(m.content)]
    ELSE s

\* clearTimeout; c.json(message, { headers })
JsonSuccess(s) ==
    [s EXCEPT !.timeoutId = FALSE, !.pc = "done",
              !.response = Response(200, "application/json", JsonSessionHeader(s), "", <<>>, s.fullContent)]

\* the outer catch: c.json({ type: "error", ... }, status), no headers given
OuterCatch(s, error) ==
    LET auth == isExitCode1(error)
    IN  [s EXCEPT !.pc = "done", !.error = error,
                  !.response = Response(IF auth THEN 401 ELSE 500, "application/json", Undefined,
                                        IF auth THEN "authentication_error" ELSE "api_error",
                                        IF auth THEN AuthMessage ELSE ErrorMessageOf(error), <<>>)]

\* the inner catch of the non-streaming path: clearTimeout, rethrow
JsonFailure(s, error) == OuterCatch([s EXCEPT !.timeoutId = FALSE], error)

\* what c.req.json() throws on a malformed body
BodyError == Err(TRUE, "SyntaxError", <<"Failed", "to", "parse", "JSON">>)

(***************************************************************************)
(* Actions: one per callback.                                              *)
(***************************************************************************)
Init ==
    /\ req = [r \in Reqs |-> Idle]
    /\ consumed = 0

Set(r, s) == req' = [req EXCEPT ![r] = s]

\* the request was answered with an SSE stream
Streamed(r) == req[r].response.contentType = "text/event-stream"

\* POST /v1/messages, streaming: handleMessages up to the return of the Response
HandleStreaming(r) ==
    /\ req[r].pc = "idle"
    /\ \E resume \in InboundIds :
         Set(r, StreamResponse(Start([Options(req[r]) EXCEPT !.stream = TRUE, !.resumeSessionId = resume])))
    /\ UNCHANGED consumed

\* POST /v1/messages with stream: false: handleMessages up to the first await of the loop
HandleNonStreaming(r) ==
    /\ req[r].pc = "idle"
    /\ \E resume \in InboundIds :
         Set(r, [Options(req[r]) EXCEPT !.stream = FALSE, !.resumeSessionId = resume,
                               !.timeoutId = TRUE, !.timeoutArms = @ + 1, !.pc = "collecting"])
    /\ UNCHANGED consumed

\* POST /v1/messages with a body that is not JSON: c.req.json() throws
HandleMalformed(r) ==
    /\ req[r].pc = "idle"
    /\ \E resume \in InboundIds :
         Set(r, OuterCatch([req[r] EXCEPT !.resumeSessionId = resume], BodyError))
    /\ UNCHANGED consumed

\* the engine yields a message to the streaming loop
EngineYield(r) ==
    /\ req[r].pc = "streaming"
    /\ consumed < MaxEvents
    /\ \E m \in Messages : Set(r, LoopBody(req[r], m))
    /\ consumed' = consumed + 1

\* the engine's stream ends naturally
EngineEnd(r) ==
    /\ req[r].pc = "streaming"
    /\ Set(r, Closing(Finally(req[r])))
    /\ UNCHANGED consumed

\* the engine raises a failure
EngineThrow(r) ==
    /\ req[r].pc = "streaming"
    /\ \E e \in EngineErrors : Set(r, Catch(Finally(req[r]), e))
    /\ UNCHANGED consumed

\* the total timer fires
TotalTimeout(r) ==
    /\ Streamed(r)
    /\ req[r].timeoutId
    /\ Set(r, TimerCallback([req[r] EXCEPT !.timeoutId = FALSE]))
    /\ UNCHANGED consumed

\* the inactivity timer fires
InactivityTimeout(r) ==
    /\ Streamed(r)
    /\ req[r].inactivityTimeoutId
    /\ Set(r, TimerCallback([req[r] EXCEPT !.inactivityTimeoutId = FALSE, !.inactivityLive = @ - 1]))
    /\ UNCHANGED consumed

\* variant: a failing keep-alive write is swallowed and the interval kept
HeartbeatBody_KeepTicking(s) ==
    IF s.clientDisconnected THEN [s EXCEPT !.heartbeat = FALSE]
    ELSE IF CanCloseOrEnqueue(s) THEN Enqueue(s, <<Ping>>)
    ELSE s

\* variant: a failing keep-alive write is handed to the catch block of start()
HeartbeatBody_Rethrow(s) ==
    IF s.clientDisconnected THEN [s EXCEPT !.heartbeat = FALSE]
    ELSE IF CanCloseOrEnqueue(s) THEN Enqueue(s, <<Ping>>)
    ELSE Catch(Finally(s), TypeErrorClosed)

\* body of the keep-alive interval
HeartbeatBody(s) ==
    IF s.clientDisconnected THEN [s EXCEPT !.heartbeat = FALSE]
    ELSE IF CanCloseOrEnqueue(s) THEN Enqueue(s, <<Ping>>)
    ELSE [s EXCEPT !.heartbeat = FALSE]

\* the keep-alive frames written so far
PingCount(s) == Cardinality({i \in 1..Len(s.frames) : s.frames[i] = Ping})

\* the keep-alive interval ticks
Heartbeat(r) ==
    /\ req[r].heartbeat
    /\ HeartbeatBody(req[r]).frames # req[r].frames => PingCount(req[r]) < MaxPings
    /\ Set(r, HeartbeatBody(req[r]))
    /\ UNCHANGED consumed

\* variant: cancel() forgets the inactivity timer
CancelBody_TotalOnly(s) == [s EXCEPT !.clientDisconnected = TRUE, !.timeoutId = FALSE]

\* body of ReadableStream.cancel
CancelBody(s) == ClearTimeouts([s EXCEPT !.clientDisconnected = TRUE])

\* variant: clientDisconnected is one flag for all requests
Cancel_AllRequests(r) ==
    /\ Streamed(r)
    /\ ~req[r].cancelled
    /\ ~req[r].startRejected
    /\ req' = [q \in Reqs |->
                 IF q = r THEN CancelBody([req[r] EXCEPT !.cancelled = TRUE])
                 ELSE [req[q] EXCEPT !.clientDisconnected = TRUE]]
    /\ UNCHANGED consumed

\* the client closes the connection: the stream is cancelled, cancel() runs
Cancel(r) ==
    /\ Streamed(r)
    /\ ~req[r].cancelled
    /\ ~req[r].startRejected
    /\ Set(r, CancelBody([req[r] EXCEPT !.cancelled = TRUE]))
    /\ UNCHANGED consumed

\* the engine yields a message to the non-streaming loop
JsonYield(r) ==
    /\ req[r].pc = "collecting"
    /\ consumed < MaxEvents
    /\ \E m \in Messages : Set(r, [JsonLoopBody(req[r], m) EXCEPT !.seen = Append(@, m)])
    /\ consumed' = consumed + 1

\* the engine's stream ends naturally, non-streaming
JsonEnd(r) ==
    /\ req[r].pc = "collecting"
    /\ Set(r, JsonSuccess(req[r]))
    /\ UNCHANGED consumed

\* the engine raises a failure, non-streaming
JsonThrow(r) ==
    /\ req[r].pc = "collecting"
    /\ \E e \in EngineErrors : Set(r, JsonFailure(req[r], e))
    /\ UNCHANGED consumed

\* the engine call of a streamed request rejects with any failure value
EngineThrowAny(r) ==
    /\ req[r].pc = "streaming"
    /\ \E e \in FailureValues : Set(r, Catch(Finally(req[r]), e))
    /\ UNCHANGED consumed

\* the engine call of a non-streaming request rejects with any failure value
JsonThrowAny(r) ==
    /\ req[r].pc = "collecting"
    /\ \E e \in FailureValues : Set(r, JsonFailure(req[r], e))
    /\ UNCHANGED consumed

\* a turn that writes frames and an event that writes none
FewMsgs == {Msg("assistant", "s1", MixedContent, "", "", NoIndex, ""), ResultMsg}

\* the engine yields one of a few messages to the streaming loop
EngineYieldFew(r) ==
    /\ req[r].pc = "streaming"
    /\ consumed < MaxEvents
    /\ \E m \in FewMsgs : Set(r, LoopBody(req[r], m))
    /\ consumed' = consumed + 1

\* the engine call of a streamed request rejects with a connection reset
EngineThrowReset(r) ==
    /\ req[r].pc = "streaming"
    /\ Set(r, Catch(Finally(req[r]), Err(TRUE, "Error", <<"read", "ECONNRESET">>)))
    /\ UNCHANGED consumed

\* the timer of the non-streaming path fires: abort only
JsonTimeout(r) ==
    /\ req[r].pc = "collecting"
    /\ req[r].timeoutId
    /\ Set(r, Abort([req[r] EXCEPT !.timeoutId = FALSE]))
    /\ UNCHANGED consumed

\* the request the sequential specification runs
Single == {"r1"}

Next ==
    \E r \in Single :
        \/ HandleStreaming(r)
        \/ HandleNonStreaming(r)
        \/ HandleMalformed(r)
        \/ EngineYield(r)
        \/ EngineEnd(r)
        \/ EngineThrow(r)
        \/ TotalTimeout(r)
        \/ InactivityTimeout(r)
        \/ Heartbeat(r)
        \/ Cancel(r)
        \/ JsonYield(r)
        \/ JsonEnd(r)
        \/ JsonThrow(r)
        \/ JsonTimeout(r)

Spec == Init /\ [][Next]_vars

\* the error classifier on every failure value: a request whose engine call
\* rejects before it yields anything
NextErr ==
    \E r \in Single :
        \/ HandleStreaming(r)
        \/ HandleNonStreaming(r)
        \/ EngineThrowAny(r)
        \/ JsonThrowAny(r)

SpecErr == Init /\ [][NextErr]_vars

\* the model mapper and the prompt compiler on every body: the request
\* arrives with any of the bodies
InitBody ==
    /\ \E b \in Bodies :
         req = [r \in Reqs |-> IF r \in Single THEN [Idle EXCEPT !.body = b] ELSE Idle]
    /\ consumed = 0

NextBody ==
    \E r \in Single :
        \/ HandleStreaming(r)
        \/ HandleNonStreaming(r)

SpecBody == InitBody /\ [][NextBody]_vars

\* one streamed request under the runtime's scheduling: a pending timer
\* fires and the keep-alive interval ticks, unless cleared first
NextLive ==
    \E r \in Single :
        \/ HandleStreaming(r)
        \/ EngineYieldFew(r)
        \/ EngineEnd(r)
        \/ EngineThrowReset(r)
        \/ TotalTimeout(r)
        \/ InactivityTimeout(r)
        \/ Heartbeat(r)
        \/ Cancel(r)

SpecLive ==
    /\ Init
    /\ [][NextLive]_vars
    /\ \A r \in Single :
          /\ WF_vars(TotalTimeout(r))
          /\ WF_vars(InactivityTimeout(r))
          /\ WF_vars(Heartbeat(r))

\* the streamed requests in flight together
NextTwo ==
    \E r \in Reqs :
        \/ HandleStreaming(r)
        \/ EngineYieldFew(r)
        \/ EngineEnd(r)
        \/ EngineThrowReset(r)
        \/ TotalTimeout(r)
        \/ InactivityTimeout(r)
        \/ Cancel(r)

SpecTwo == Init /\ [][NextTwo]_vars

(***************************************************************************)
(* Properties.                                                             *)
(***************************************************************************)
\* how many frames of a type the sequence holds
CountType(fs, type) == Cardinality({i \in 1..Len(fs) : fs[i].type = type})

StartsWithPreamble(fs) ==
    /\ Len(fs) >= 2
    /\ fs[1] = MessageStart
    /\ fs[2] = ContentBlockStart(0)
    /\ CountType(fs, "message_start") = 1

EndsWithTriad(fs) ==
    /\ Len(fs) >= 5
    /\ SubSeq(fs, Len(fs) - 2, Len(fs)) = ClosingTriad
    /\ CountType(fs, "message_delta") = 1
    /\ CountType(fs, "message_stop") = 1
    /\ CountType(fs, "error") = 0

EndsWithError(fs) ==
    /\ Len(fs) >= 3
    /\ fs[Len(fs)].type = "error"
    /\ CountType(fs, "error") = 1
    /\ CountType(fs, "message_delta") = 0
    /\ CountType(fs, "message_stop") = 0

\* C1, as stated: every finished streamed response starts with the preamble
\* and ends with the closing triad, unless an error frame is emitted instead,
\* whatever the timers and the client do.
C1_Stated ==
    \A r \in Reqs :
        Streamed(r) /\ req[r].pc = "done" =>
            /\ StartsWithPreamble(req[r].frames)
            /\ EndsWithTriad(req[r].frames) \/ EndsWithError(req[r].frames)

\* C1, amended: every streamed response starts with exactly one message_start
\* followed by content_block_start(0); a closing triad or an error frame, when
\* written, is written once and ends the sequence; and a response that finishes
\* with no timer fired and no client disconnect ends with the closing triad or
\* with one error frame.
C1_FrameOrder ==
    \A r \in Reqs :
        Streamed(r) =>
            LET fs == req[r].frames
            IN  /\ StartsWithPreamble(fs)
                /\ CountType(fs, "message_stop") > 0 \/ CountType(fs, "message_delta") > 0
                      => EndsWithTriad(fs)
                /\ CountType(fs, "error") > 0 => EndsWithError(fs)
                /\ req[r].pc = "done" /\ ~req[r].aborted /\ ~req[r].cancelled
                      => EndsWithTriad(fs) \/ EndsWithError(fs)

\* C1 witness: a response finished undisturbed, with forwarded frames between
\* the preamble and the closing triad.
C1_Witness ==
    \E r \in Reqs :
        /\ Streamed(r) /\ req[r].pc = "done"
        /\ ~req[r].aborted /\ ~req[r].cancelled
        /\ EndsWithTriad(req[r].frames)
        /\ Len(req[r].frames) > 5

\* C2: once cancel() has run, no step writes a frame to the output (so no
\* error frame either), whatever the engine does afterwards.
C2_SilentAfterDisconnect ==
    [][\A r \in Reqs : req[r].clientDisconnected => req'[r].frames = req[r].frames]_vars

\* C2 witness: the engine raised a failure after the client had disconnected
\* and the output holds no error frame.
C2_Witness ==
    \E r \in Reqs :
        /\ req[r].clientDisconnected /\ ~req[r].aborted
        /\ req[r].pc = "done" /\ req[r].startRejected
        /\ req[r].error \in EngineErrors
        /\ CountType(req[r].frames, "error") = 0

\* C3: after a client disconnect no timer of the request is pending in any
\* later state, and abortController.abort is not called again.
C3_DisconnectClearsTimers ==
    [][\A r \in Reqs :
          /\ req'[r].clientDisconnected =>
                ~req'[r].timeoutId /\ ~req'[r].inactivityTimeoutId
          /\ req[r].clientDisconnected => req'[r].abortCalls = req[r].abortCalls]_vars

\* C3 witness: the client disconnected while the loop was running (start()
\* ended on the cancelled controller), after an assistant turn, and the signal
\* was never triggered.
C3_Witness ==
    \E r \in Reqs :
        /\ req[r].clientDisconnected
        /\ req[r].pc = "done" /\ req[r].startRejected
        /\ req[r].turnCount > 0
        /\ ~req[r].aborted

\* C4: when the total timer fires while the engine's stream is running, the
\* signal is triggered and the output is closed; and no step writes a frame
\* to an output whose closure was requested.
C4_TotalTimeoutCloses ==
    [][\A r \in Reqs :
          /\ TotalTimeout(r) /\ req[r].pc = "streaming" =>
                req'[r].aborted /\ ~CanCloseOrEnqueue(req'[r])
          /\ req[r].closeRequested => req'[r].frames = req[r].frames]_vars

\* C4 witness: the total timer fired before any event (the inactivity timer
\* armed after the preamble is still pending), and the keep-alive write that
\* followed was refused.
C4_Witness ==
    \E r \in Reqs :
        /\ req[r].pc = "streaming"
        /\ req[r].aborted /\ req[r].closeRequested
        /\ req[r].inactivityTimeoutId /\ consumed = 0
        /\ ~req[r].heartbeat

\* C5, as stated: a streaming request cancelled by a timer, where the engine
\* reports no exit-code-1 or process-abort failure, ends with an api_error
\* error frame.
C5_Stated ==
    \A r \in Reqs :
        /\ Streamed(r) /\ req[r].pc = "done"
        /\ req[r].aborted
        /\ ~isExitCode1(req[r].error) /\ ~isSdkAbort(req[r].error)
        => /\ EndsWithError(req[r].frames)
           /\ req[r].frames[Len(req[r].frames)].etype = "api_error"

\* the loop is running, the client is connected and the output is open
Translating(r) ==
    /\ req[r].pc = "streaming"
    /\ ~req[r].clientDisconnected
    /\ CanCloseOrEnqueue(req[r])

\* C6: while the translator writes to an open output, a stream_event wrapping
\* a content_block_start of a tool_use block writes no frame, and a
\* stream_event wrapping a content_block_stop writes exactly one
\* content_block_stop frame with the engine's index, whether or not the start
\* of that block was forwarded.
C6_ToolSuppression ==
    \A r \in Reqs :
        Translating(r) =>
            /\ \A i \in {0, 1} :
                  LoopBody(req[r], StreamStart("tool_use", i)).frames = req[r].frames
            /\ \A i \in {0, 1} :
                  LoopBody(req[r], StreamStop(i)).frames = Append(req[r].frames, ContentBlockStop(i))

\* C6 witness: a tool_use block was opened and closed at index 1; only its
\* content_block_stop reached the output.
C6_Witness ==
    \E r \in Reqs :
        /\ req[r].hasStreamEvents
        /\ consumed = 2
        /\ req[r].frames = <<MessageStart, ContentBlockStart(0), ContentBlockStop(1)>>

\* C7: hasStreamEvents is never unset, and once it is set an assistant event
\* writes no frame.
C7_FallbackExclusive ==
    [][\A r \in Reqs :
          /\ req[r].hasStreamEvents => req'[r].hasStreamEvents
          /\ req[r].hasStreamEvents /\ Translating(r) =>
                \A m \in AssistantMsgs : LoopBody(req[r], m).frames = req[r].frames]_vars

\* C7 witness: an assistant turn with text "a" and "b" arrived after a
\* stream_event, and none of its text was written.
C7_Witness ==
    \E r \in Reqs :
        /\ req[r].hasStreamEvents
        /\ req[r].turnCount = 1
        /\ req[r].currentSessionId = "s1"
        /\ CountType(req[r].frames, "content_block_delta") = 0

\* the request has been answered
Answered(r) == req[r].response # NoResponse

\* C8, as stated: every response carries a non-empty X-Claude-Session-ID header.
C8_Stated ==
    \A r \in Reqs : Answered(r) => Truthy(req[r].response.sessionHeader)

\* C9, as stated: when the engine reported a session identifier during the
\* request, the header of the (successful) response is that identifier.
C9_Stated ==
    \A r \in Reqs :
        /\ Answered(r) /\ req[r].pc = "done"
        /\ req[r].response.status = 200
        /\ Truthy(req[r].currentSessionId)
        => req[r].response.sessionHeader = req[r].currentSessionId

\* C10, as stated: when the engine reported no session identifier, the header
\* of the (successful) response is the inbound identifier if one was sent and
\* the placeholder otherwise.
C10_Stated ==
    \A r \in Reqs :
        /\ Answered(r) /\ req[r].pc = "done"
        /\ req[r].response.status = 200
        /\ ~Truthy(req[r].currentSessionId)
        => req[r].response.sessionHeader = Or(req[r].resumeSessionId, SessionPlaceholder)

\* C16, as stated: the streaming loop is left only because the engine's stream
\* ended, the engine raised a failure, or a client disconnect was observed.
C16_Stated ==
    [][\A r \in Reqs :
          req[r].pc = "streaming" /\ req'[r].pc = "done" =>
              EngineEnd(r) \/ EngineThrow(r) \/ req[r].clientDisconnected]_vars

\* C16, amended: no number of assistant turns stops the stream: while the
\* client is connected and the output is open, every event leaves the loop
\* running; the loop is left only because the engine's stream ended, the
\* engine raised a failure, a client disconnect was observed, or a frame was
\* written to an output that a timer had already closed.
C16_NoTurnLimit ==
    [][\A r \in Reqs :
          /\ Translating(r) => \A m \in Messages : LoopBody(req[r], m).pc = "streaming"
          /\ req[r].pc = "streaming" /\ req'[r].pc = "done" =>
                \/ EngineEnd(r) \/ EngineThrow(r)
                \/ req[r].clientDisconnected
                \/ req[r].closeRequested /\ req[r].aborted]_vars

\* C16 witness: two assistant turns were consumed and the loop is still running.
C16_Witness ==
    \E r \in Reqs : Translating(r) /\ req[r].turnCount = 2

\* C17: once start() has finished (natural completion, engine failure, or the
\* engine's reaction to a timer's cancellation), neither timer of the
\* streaming request is pending.
C17_TimersCleared ==
    \A r \in Reqs :
        Streamed(r) /\ req[r].pc = "done" =>
            /\ ~req[r].timeoutId
            /\ ~req[r].inactivityTimeoutId
            /\ req[r].inactivityLive = 0

\* C17 witness: a timer cancelled the request, the engine then raised a
\* failure, and no timer is left.
C17_Witness ==
    \E r \in Reqs :
        /\ Streamed(r) /\ req[r].pc = "done"
        /\ req[r].aborted /\ ~req[r].cancelled
        /\ req[r].error \in EngineErrors
        /\ ~req[r].timeoutId /\ ~req[r].inactivityTimeoutId

\* C18, as stated: within one streaming request abortController.abort is
\* called at most once and controller.close() is requested at most once by the
\* timers (the second request would throw in the timer callback).
C18_Stated ==
    \A r \in Reqs : req[r].abortCalls <= 1 /\ ~req[r].uncaught

\* C19: the inactivity timer is armed once by the synchronous part of start()
\* and re-armed by exactly the events consumed while the client is connected,
\* whether or not they write a frame; a restart replaces the previous timer,
\* so at most one inactivity timer is scheduled.
C19_InactivityRestart ==
    [][\A r \in Reqs :
          Streamed(r)' =>
              /\ req'[r].inactivityLive <= 1
              /\ req'[r].inactivityArms =
                    IF req[r].pc = "idle" THEN 1
                    ELSE IF EngineYield(r) /\ ~req[r].clientDisconnected
                         THEN req[r].inactivityArms + 1
                         ELSE req[r].inactivityArms]_vars

\* C19 witness: two events that wrote no frame each restarted the timer.
C19_Witness ==
    \E r \in Reqs :
        /\ req[r].pc = "streaming"
        /\ req[r].frames = <<MessageStart, ContentBlockStart(0)>>
        /\ req[r].inactivityArms = 3
        /\ req[r].inactivityTimeoutId

\* C20: the total timer is armed exactly once, by the synchronous part of
\* start(), and no later step arms it again.
C20_TotalArmedOnce ==
    [][\A r \in Reqs :
          Streamed(r)' =>
              /\ req'[r].timeoutArms = 1
              /\ req[r].pc # "idle" /\ req'[r].timeoutId => req[r].timeoutId]_vars

\* C20 witness: two events were consumed and the total timer armed at the
\* start is still the pending one.
C20_Witness ==
    \E r \in Reqs :
        /\ req[r].pc = "streaming"
        /\ consumed = 2
        /\ req[r].timeoutArms = 1
        /\ req[r].timeoutId

\* the texts of the text blocks of one event, none unless it is an assistant event
EventTexts(m) ==
    IF m.type # "assistant" THEN <<>>
    ELSE LET tb == SelectSeq(m.content, LAMBDA b : b.type = "text")
         IN  [i \in 1..Len(tb) |-> tb[i].text]

RECURSIVE AllTexts(_)
\* the texts of all events, in arrival order
AllTexts(ms) == IF ms = <<>> THEN <<>> ELSE EventTexts(Head(ms)) \o AllTexts(Tail(ms))

\* C11: a non-streaming request whose engine stream ended naturally is
\* answered with status 200 and a text that is the concatenation, in arrival
\* order, of the text blocks of the assistant events consumed.
C11_JsonBody ==
    \A r \in Reqs :
        ~req[r].stream /\ req[r].pc = "done" /\ req[r].error = NoError =>
            /\ req[r].response.status = 200
            /\ req[r].response.contentType = "application/json"
            /\ req[r].response.text = AllTexts(req[r].seen)

\* C11 witness: two assistant turns, each with the texts "a" and "b" around a
\* tool call, were answered with "abab".
C11_Witness ==
    \E r \in Reqs :
        /\ ~req[r].stream /\ req[r].pc = "done"
        /\ req[r].response.status = 200
        /\ Len(req[r].seen) = 2
        /\ req[r].response.text = <<"a", "b", "a", "b">>

\* the failure of request r was reported in an error frame
Reported(r) ==
    /\ Streamed(r) /\ req[r].pc = "done" /\ req[r].error # NoError
    /\ Len(req[r].frames) > 0
    /\ req[r].frames[Len(req[r].frames)].type = "error"

\* the rules of the classifier, as the claim words them
MentionsExitCode1(e) ==
    \E i, j \in 1..Len(e.message) :
        SubSeq(e.message, i, j) \in {<<"exited", "with", "code", "1">>, <<"exit", "code", "1">>}

MentionsProcessAbort(e) ==
    \E i, j \in 1..Len(e.message) :
        SubSeq(e.message, i, j) \in {<<"Claude", "Code", "process", "aborted">>,
                                      <<"process", "aborted", "by", "user">>}

MentionsReset(e) ==
    \E i \in 1..Len(e.message) : e.message[i] \in {"reset", "ECONNRESET"}

\* the frame the first matching rule gives; reset is whether the third rule matches
FirstMatch(e, reset) ==
    IF MentionsExitCode1(e) THEN ErrorFrame("authentication_error", AuthMessage)
    ELSE IF MentionsProcessAbort(e) THEN ErrorFrame("api_error", SdkAbortMessage)
    ELSE IF reset THEN ErrorFrame("connection_error", e.message)
    ELSE ErrorFrame("api_error", e.message)

\* C12, as stated: the error frame is the one of the first matching rule,
\* where the third rule matches every message that contains "reset" or
\* "ECONNRESET" and every error named AbortError.
C12_Stated ==
    \A r \in Reqs :
        Reported(r) =>
            req[r].frames[Len(req[r].frames)] =
                FirstMatch(req[r].error, MentionsReset(req[r].error) \/ req[r].error.name = "AbortError")

\* C12: the error frame is the one of the first matching rule, where the
\* third rule matches only a failure value that is an Error object (with
\* "reset" or "ECONNRESET" in its message, or named AbortError); a thrown
\* value that is not an Error falls to the last rule.
C12_FirstMatch ==
    \A r \in Reqs :
        Reported(r) =>
            req[r].frames[Len(req[r].frames)] =
                FirstMatch(req[r].error,
                           /\ req[r].error.isError
                           /\ MentionsReset(req[r].error) \/ req[r].error.name = "AbortError")

\* C12 witness: an AbortError whose message matches all of the first three
\* rules was reported as authentication_error.
C12_Witness ==
    \E r \in Reqs :
        /\ Reported(r)
        /\ req[r].error.isError /\ req[r].error.name = "AbortError"
        /\ MentionsExitCode1(req[r].error) /\ MentionsReset(req[r].error)
        /\ req[r].frames[Len(req[r].frames)].etype = "authentication_error"

\* C13, as stated: the JSON error body of a non-streaming request carries
\* the category and the message the streaming classifier gives the same
\* failure value, with status 401 for authentication_error and 500 otherwise.
C13_Stated ==
    \A r \in Reqs :
        ~req[r].stream /\ req[r].pc = "done" /\ req[r].error \in FailureValues =>
            /\ req[r].response.errType = StreamErrorType(req[r].error)
            /\ req[r].response.errMsg = StreamUserMessage(req[r].error)
            /\ req[r].response.status =
                  IF StreamErrorType(req[r].error) = "authentication_error" THEN 401 ELSE 500

\* handleMessages has computed the options of the engine call of request r
Compiled(r) == req[r].model # ""

\* the model name of the request, the empty name when the field is absent
NamedModel(r) == IF "model" \in DOMAIN req[r].body THEN req[r].body.model ELSE <<>>

\* name has the characters of word in a row
HasSubstring(name, word) == \E i, j \in 1..Len(name) : SubSeq(name, i, j) = word

\* C14: the model of the engine call is opus when the model name contains
\* "opus" (whether or not it contains "haiku"), else haiku when it contains
\* "haiku", else sonnet, also for an empty or absent name.
C14_ModelMapper ==
    \A r \in Reqs :
        Compiled(r) =>
            req[r].model =
                IF HasSubstring(NamedModel(r), <<"o", "p", "u", "s">>) THEN "opus"
                ELSE IF HasSubstring(NamedModel(r), <<"h", "a", "i", "k", "u">>) THEN "haiku"
                ELSE "sonnet"

\* C14 witness: the name "haikuopus" was mapped to opus.
C14_Witness ==
    \E r \in Reqs :
        /\ Compiled(r)
        /\ NamedModel(r) = <<"h", "a", "i", "k", "u", "o", "p", "u", "s">>
        /\ req[r].model = "opus"

\* the message list of the request, the empty list when the field is absent
ListedMessages(r) == IF "messages" \in DOMAIN req[r].body THEN req[r].body.messages ELSE <<>>

\* the blank lines of a text
BlankLines(text) == {i \in 1..Len(text) : text[i] = "\n\n"}

\* where the k-th part of a text starts, the parts being what the blank
\* lines divide it into
PartStart(text, k) ==
    IF k = 1 THEN 1
    ELSE 1 + CHOOSE i \in BlankLines(text) :
                 Cardinality({j \in BlankLines(text) : j <= i}) = k - 1

\* the label the claim gives a role
LabelOf(role) == IF role = "assistant" THEN "Assistant: " ELSE "Human: "

RECURSIVE InnerBlankLines(_, _)
\* the blank lines inside the texts of the first k messages
InnerBlankLines(msgs, k) ==
    IF k = 0 THEN 0
    ELSE InnerBlankLines(msgs, k - 1) + Cardinality(BlankLines(ContentText(msgs[k].content)))

\* C15, as stated: the prompt of a non-empty message list has exactly
\* len(messages)-1 blank-line separators and its k-th segment starts with
\* the label of the k-th message; an empty or absent list gives "".
C15_Stated ==
    \A r \in Reqs :
        Compiled(r) =>
            LET msgs == ListedMessages(r)
                p == req[r].prompt
            IN  IF msgs = <<>> THEN p = <<>>
                ELSE /\ Cardinality(BlankLines(p)) = Len(msgs) - 1
                     /\ \A k \in 1..Len(msgs) :
                           /\ PartStart(p, k) <= Len(p)
                           /\ p[PartStart(p, k)] = LabelOf(msgs[k].role)

\* C15: the prompt of a non-empty message list is its labelled segments
\* joined by one blank line each: it has len(messages)-1 blank lines plus the
\* blank lines inside the messages' texts, and the label of the k-th message
\* stands right after the separator that follows the texts of the first k-1
\* messages; so the count is exactly len(messages)-1, and every part starts
\* with a label, when no text has a blank line.  An empty or absent list
\* gives "".
C15_Prompt ==
    \A r \in Reqs :
        Compiled(r) =>
            LET msgs == ListedMessages(r)
                p == req[r].prompt
            IN  IF msgs = <<>> THEN p = <<>>
                ELSE /\ Cardinality(BlankLines(p)) = Len(msgs) - 1 + InnerBlankLines(msgs, Len(msgs))
                     /\ \A k \in 1..Len(msgs) :
                           LET at == PartStart(p, k + InnerBlankLines(msgs, k - 1))
                           IN  at <= Len(p) /\ p[at] = LabelOf(msgs[k].role)

\* C15 witness: a system message whose text has a blank line and an
\* assistant message were compiled into a prompt with two blank lines.
C15_Witness ==
    \E r \in Reqs :
        /\ Compiled(r)
        /\ Len(ListedMessages(r)) = 2
        /\ ListedMessages(r)[1].role = "system"
        /\ ListedMessages(r)[2].role = "assistant"
        /\ InnerBlankLines(ListedMessages(r), 1) = 1
        /\ Cardinality(BlankLines(req[r].prompt)) = 2

\* C21, as stated: once the catch block of a streamed request has run with
\* the client still connected, the output is closed and holds exactly one
\* error frame, its last frame, with the classified type and message; no
\* response holds both an error frame and a message_stop frame.
C21_Stated ==
    \A r \in Reqs :
        /\ Streamed(r) /\ req[r].error # NoError /\ ~req[r].clientDisconnected =>
              /\ req[r].closeRequested
              /\ CountType(req[r].frames, "error") = 1
              /\ req[r].frames[Len(req[r].frames)] =
                    ErrorFrame(StreamErrorType(req[r].error), StreamUserMessage(req[r].error))
        /\ Streamed(r) =>
              CountType(req[r].frames, "error") = 0 \/ CountType(req[r].frames, "message_stop") = 0

\* C22: once the client has disconnected or the output has been closed, no
\* step writes a keep-alive frame, and a tick of the keep-alive interval
\* changes nothing of the request but the interval, which it cancels.
C22_KeepAliveSilent ==
    [][\A r \in Reqs :
          req[r].clientDisconnected \/ req[r].closeRequested =>
              /\ PingCount(req'[r]) = PingCount(req[r])
              /\ Heartbeat(r) =>
                    /\ req'[r] = [req[r] EXCEPT !.heartbeat = FALSE]
                    /\ CountType(req'[r].frames, "error") = CountType(req[r].frames, "error")]_vars

\* C22 witness: a timer closed the output while the engine was silent and the
\* client connected, and the next tick of the interval cancelled the interval
\* without writing anything.
C22_Witness ==
    \E r \in Reqs :
        /\ req[r].pc = "streaming" /\ req[r].closeRequested
        /\ ~req[r].clientDisconnected
        /\ ~req[r].heartbeat
        /\ req[r].error = NoError
        /\ req[r].frames = <<MessageStart, ContentBlockStart(0)>>

\* C24: in a streamed request a captured session identifier is kept by every
\* step; an identifier is captured only by the loop consuming an assistant
\* event that carries it; and while none is captured, every assistant event
\* that carries an identifier gets it captured.
C24_FirstSessionKept ==
    [][\A r \in Reqs :
          Streamed(r) =>
              /\ Truthy(req[r].currentSessionId) =>
                    req'[r].currentSessionId = req[r].currentSessionId
              /\ ~Truthy(req[r].currentSessionId) /\ Truthy(req'[r].currentSessionId) =>
                    /\ EngineYield(r)
                    /\ \E m \in AssistantMsgs :
                          m.session_id = req'[r].currentSessionId /\ req'[r] = LoopBody(req[r], m)
              /\ req[r].pc = "streaming" /\ ~req[r].clientDisconnected
                    /\ ~Truthy(req[r].currentSessionId) =>
                    \A m \in AssistantMsgs :
                        Truthy(m.session_id) =>
                            LoopBody(req[r], m).currentSessionId = m.session_id]_vars

\* C24 witness: "s1" was captured from the first turn, and a further turn
\* carrying "s2" leaves "s1" captured.
C24_Witness ==
    \E r \in Reqs :
        /\ Translating(r)
        /\ req[r].turnCount = 1
        /\ req[r].currentSessionId = "s1"
        /\ LoopBody(req[r], Msg("assistant", "s2", MixedContent, "", "", NoIndex, "")).currentSessionId = "s1"
        /\ LoopBody(req[r], Msg("assistant", "s2", MixedContent, "", "", NoIndex, "")).turnCount = 2

RECURSIVE StreamingCapture(_, _)
\* the closure of the streaming loop after it tracked the events ms
StreamingCapture(s, ms) ==
    IF ms = <<>> THEN s ELSE StreamingCapture(TrackMessage(s, Head(ms)), Tail(ms))

\* C25, as stated: the identifier the non-streaming loop has captured is the
\* one the streaming loop captures from the same events.
C25_Stated ==
    \A r \in Reqs :
        ~req[r].stream /\ req[r].pc \in {"collecting", "done"} /\ req[r].error = NoError =>
            req[r].currentSessionId = StreamingCapture(Idle, req[r].seen).currentSessionId

\* assistant turns: text around a tool call, a tool call only, a tool call
\* before the text, no block at all
FallbackTurns ==
    { Msg("assistant", Undefined, c, "", "", NoIndex, "") :
          c \in {MixedContent, ToolContent, <<ToolBlock, TextBlock("b")>>, <<>>} }

\* start, delta with the whole text, stop for each text block, indexed by
\* the block's position among the text blocks
ExpectedTriads(content) ==
    LET tb == SelectSeq(content, LAMBDA b : b.type = "text")
    IN  [j \in 1..(3 * Len(tb)) |->
            LET k == (j - 1) \div 3
            IN  CASE (j - 1) % 3 = 0 -> ContentBlockStart(k)
                  [] (j - 1) % 3 = 1 -> ContentBlockDelta(k, tb[k + 1].text)
                  [] OTHER -> ContentBlockStop(k)]

\* C26: while no stream_event has been seen (output open, client connected),
\* an assistant turn writes, for each of its text blocks in order, one
\* content_block_start, one content_block_delta with the whole text and one
\* content_block_stop, indexed by the block's position among the text blocks
\* of the turn, and nothing for the other blocks.
C26_FallbackTriads ==
    \A r \in Reqs :
        Translating(r) /\ ~req[r].hasStreamEvents =>
            \A m \in FallbackTurns \cup AssistantMsgs :
                LoopBody(req[r], m).frames = req[r].frames \o ExpectedTriads(m.content)

\* C26 witness: the turn "a", tool call, "b" was written as two triads with
\* the indices 0 and 1.
C26_Witness ==
    \E r \in Reqs :
        /\ ~req[r].hasStreamEvents /\ req[r].turnCount = 1
        /\ req[r].frames =
              <<MessageStart, ContentBlockStart(0),
                ContentBlockStart(0), ContentBlockDelta(0, "a"), ContentBlockStop(0),
                ContentBlockStart(1), ContentBlockDelta(1, "b"), ContentBlockStop(1)>>

\* C27: a user event, a result event and a content_block_delta whose delta
\* type is not "text_delta" write no frame; a result event sets hasResult and
\* (like every event) restarts the inactivity timer, nothing else; a
\* content_block_delta of type "text_delta" is forwarded while the output is
\* open.
C27_ToolContentHidden ==
    \A r \in Reqs :
        req[r].pc = "streaming" =>
            /\ \A m \in {UserMsg, ResultMsg}
                          \cup {StreamDelta(dt, i) : dt \in {"input_json_delta", Undefined}, i \in {0, 1}} :
                  LoopBody(req[r], m).frames = req[r].frames
            /\ Translating(r) =>
                  /\ LoopBody(req[r], ResultMsg) =
                        [resetInactivityTimeout(req[r]) EXCEPT !.hasResult = TRUE]
                  /\ \A i \in {0, 1} :
                        LoopBody(req[r], StreamDelta("text_delta", i)).frames =
                            Append(req[r].frames, ContentBlockDelta(i, "x"))

\* C27 witness: a stream_event of tool content and a result event were
\* consumed and the output still holds the preamble only.
C27_Witness ==
    \E r \in Reqs :
        /\ Translating(r)
        /\ req[r].hasResult /\ req[r].hasStreamEvents
        /\ consumed = 2
        /\ req[r].frames = <<MessageStart, ContentBlockStart(0)>>

RECURSIVE Bracketed(_, _)
\* every content_block_start opens an index that is not open, every
\* content_block_stop closes an index that is open
Bracketed(fs, open) ==
    IF fs = <<>> THEN TRUE
    ELSE IF Head(fs).type = "content_block_start"
         THEN Head(fs).index \notin open /\ Bracketed(Tail(fs), open \cup {Head(fs).index})
    ELSE IF Head(fs).type = "content_block_stop"
         THEN Head(fs).index \in open /\ Bracketed(Tail(fs), open \ {Head(fs).index})
    ELSE Bracketed(Tail(fs), open)

\* C28, as stated: in every streamed response each content_block_stop closes
\* an index opened earlier and still open, and no index is opened while it is
\* open.
C28_Stated == \A r \in Reqs : Streamed(r) => Bracketed(req[r].frames, {})

\* C23: once a streamed request has finished, or its client has
\* disconnected, or its output has been closed, the keep-alive interval is
\* eventually cancelled, whatever the engine does or does not do; and a
\* cancelled interval is never scheduled again.
C23_KeepAliveCancelled ==
    /\ \A r \in Reqs :
          (Streamed(r) /\ (req[r].pc = "done" \/ req[r].clientDisconnected \/ req[r].closeRequested))
              ~> ~req[r].heartbeat
    /\ [][\A r \in Reqs : Streamed(r) /\ ~req[r].heartbeat => ~req'[r].heartbeat]_vars

\* C23 witness: the client disconnected while the engine was silent, and the
\* interval was cancelled by its own next tick.
C23_Witness ==
    \E r \in Reqs :
        /\ req[r].pc = "streaming" /\ req[r].clientDisconnected
        /\ ~req[r].closeRequested
        /\ ~req[r].heartbeat

\* C29: every step changes the closure of at most one request: its timers,
\* abort signal, flags, captured session identifier, output frames and
\* response header are touched by its own callbacks only.
C29_Isolation ==
    [][\A r \in Reqs :
          req'[r] # req[r] => \A q \in Reqs \ {r} : req'[q] = req[q]]_vars

\* C29 witness: with both requests streaming, one captured "s1", was closed
\* by a timer and lost its client, while the other is still connected, not
\* aborted, with both timers pending, no identifier and only its own frames.
C29_Witness ==
    /\ req["r1"].pc = "streaming" /\ req["r1"].currentSessionId = "s1"
    /\ req["r1"].aborted /\ req["r1"].closeRequested /\ req["r1"].clientDisconnected
    /\ Translating("r2")
    /\ ~req["r2"].aborted /\ req["r2"].abortCalls = 0
    /\ req["r2"].timeoutId /\ req["r2"].inactivityTimeoutId
    /\ ~Truthy(req["r2"].currentSessionId)
    /\ req["r2"].hasResult
    /\ req["r2"].frames = <<MessageStart, ContentBlockStart(0)>>

\* C30: every streamed request whose client stays connected eventually has
\* its output closed; the natural end of the engine's stream and a failure
\* of the engine both leave the output closed.
C30_EventuallyClosed ==
    /\ \A r \in Reqs : Streamed(r) ~> (req[r].closeRequested \/ req[r].clientDisconnected)
    /\ [][\A r \in Reqs :
             (EngineEnd(r) \/ EngineThrowReset(r)) /\ ~req[r].clientDisconnected =>
                 req'[r].closeRequested]_vars

\* C30 witness: the engine produced nothing and the inactivity timer closed
\* the output, the total timer still pending.
C30_Witness ==
    \E r \in Reqs :
        /\ req[r].pc = "streaming" /\ consumed = 0
        /\ ~req[r].clientDisconnected
        /\ req[r].closeRequested /\ req[r].abortCalls = 1
        /\ req[r].timeoutId /\ ~req[r].inactivityTimeoutId

====
